---- MODULE Spec2Model ----
(***************************************************************************)
(* WouldYouRatherBot REST API: the `generate` endpoint                     *)
(*   POST /generate/{unique_str:.+}   (rest_api.rs)                        *)
(* served by the actix-web HttpServer of main.rs.                          *)
(*                                                                         *)
(* A request is handled in three phases that the handler's signature       *)
(* fixes: the web::Path<String> extractor binds the matched URL tail to    *)
(* `user_id`, the MultipartForm<UploadForm> extractor streams the body     *)
(* into two temporary files, and the body of `generate` answers            *)
(* Ok(HttpResponse::Ok()).  Sizes are counted in MB (10^6 bytes).          *)
(***************************************************************************)
EXTENDS Integers, Sequences, FiniteSets, TLC

\* ---------------------------------------------------------------- bounds
NumReq == 2        \* connections served concurrently by the HttpServer
MaxPathLen == 5    \* longest URL tail, in symbols
MaxParts == 3      \* most parts in one multipart body
Chunk == 50        \* MB delivered by one read of the body stream

\* ------------------------------------------------------ program constants
FieldLimit == 100  \* #[multipart(limit = "100MB")]

Reqs == 1..NumReq

Delim == "+"
Atoms == {"sun", "user42"}
Alphabet == Atoms \cup {Delim}

FieldNames == {"upper_image", "lower_image"}
PartNames == FieldNames \cup {"other"}
PartSizes == {10, 100, 150}

SeqsUpTo(S, n) == UNION {[1..k -> S] : k \in 0..n}

\* URL tails the route pattern `.+` matches: every non-empty string.
RoutedPaths == SeqsUpTo(Alphabet, MaxPathLen) \ {<<>>}

Part(n, s) == [name |-> n, size |-> s]
AllParts == [name : PartNames, size : PartSizes]
Bodies == SeqsUpTo(AllParts, MaxParts)

\* ------------------------------------------- identifier grammar (spec 4.1)
\* The segments of s between the delimiters.
RECURSIVE Split(_)
Split(s) ==
    IF \A i \in 1..Len(s) : s[i] # Delim
    THEN <<s>>
    ELSE LET i == CHOOSE k \in 1..Len(s) :
                      s[k] = Delim /\ \A j \in 1..(k - 1) : s[j] # Delim
         IN <<SubSeq(s, 1, i - 1)>> \o Split(SubSeq(s, i + 1, Len(s)))

\* Exactly three segments, none of them empty.
WellFormed(s) == Len(Split(s)) = 3 /\ \A i \in 1..3 : Split(s)[i] # <<>>

Encode(u, l, id) == u \o <<Delim>> \o l \o <<Delim>> \o id

\* The scenarios of the specification's section 8.
SomePaths == { <<"sun", "+", "moon", "+", "user42">>, <<"bad">> }
SomeBodies ==
    { <<Part("upper_image", 10), Part("lower_image", 10)>>,
      <<Part("upper_image", 10), Part("other", 10)>>,
      <<Part("upper_image", 150), Part("lower_image", 10)>> }

\* The requests the concurrent specification draws from.
SomeRequests ==
    { <<p, b>> \in SomePaths \X SomeBodies :
          p = <<"bad">> => b = <<Part("upper_image", 10), Part("lower_image", 10)>> }

\* ------------------------------------------------------------ UploadForm
\* struct UploadForm { #[multipart(limit = "100MB")] upper_image: TempFile,
\*                     lower_image: TempFile }
HasLimit(name) == name = "upper_image"

NoFile == [file |-> 0, size |-> 0]
EmptyForm == [n \in FieldNames |-> NoFile]

\* A chunk of n MB may be written to the field's file holding `have` MB.
WithinLimit(name, have, n) == HasLimit(name) => have + n <= FieldLimit

\* Faulty variant: only upper_image is required.
MissingFieldsUpperOnly(form) == {n \in {"upper_image"} : form[n] = NoFile}

\* The required fields the form still lacks once the body has ended.
MissingFields(form) == {n \in FieldNames : form[n] = NoFile}

\* HTTP status of each failure of the extractors.
StatusOf(e) ==
    CASE e = "MissingField" -> 400
      [] e = "FieldTooLarge" -> 413
      [] e = "Incomplete" -> 400

\* ---------------------------------------------------------------- state
VARIABLES
    req,          \* req[r]: the request handled on connection r
    tempdir,      \* names of the temporary files that exist
    dispatchLog   \* GenerationJobs handed to the generation pipeline

vars == <<req, tempdir, dispatchLog>>

TempNames == 1..(2 * NumReq)

\* Faulty variant: every temporary file gets the same name.
FreshNameFixed(dir) == 1

\* tempfile creates the file under a name no existing file has.
FreshName(dir) == CHOOSE n \in TempNames \ dir : \A m \in TempNames \ dir : n <= m

NewRequest(p, b) ==
    [ state |-> "Received", path |-> p, body |-> b,
      user_id |-> <<>>, idx |-> 1, cur |-> "none", off |-> 0,
      form |-> EmptyForm, resp |-> 0, err |-> "none" ]

NoRequest == [NewRequest(<<>>, <<>>) EXCEPT !.state = "Idle"]

FilesOf(q) == {q.form[n].file : n \in FieldNames} \ {0}

\* Faulty variant: the files outlive the form.
ReleaseNothing(dir, q) == dir

\* Dropping the form (or the extractor's partial state) drops its TempFiles,
\* and a dropped TempFile deletes its file.
Release(dir, q) == dir \ FilesOf(q)

Init ==
    /\ req \in [Reqs -> {NewRequest(pb[1], pb[2]) : pb \in SomeRequests}]
    /\ tempdir = {}
    /\ dispatchLog = <<>>

\* One connection, every routed path and every body.
InitOne ==
    /\ \E p \in RoutedPaths \cup SomePaths, b \in Bodies \cup SomeBodies :
          /\ p \in SomePaths \/ b \in SomeBodies
          /\ req = [r \in Reqs |-> IF r = 1 THEN NewRequest(p, b) ELSE NoRequest]
    /\ tempdir = {}
    /\ dispatchLog = <<>>

Fail(r, e) ==
    /\ req' = [req EXCEPT ![r] = [@ EXCEPT !.state = "UploadFailed", !.err = e,
                                           !.resp = StatusOf(e), !.cur = "none",
                                           !.form = EmptyForm]]
    /\ tempdir' = Release(tempdir, req[r])

\* web::Path<String>: the whole matched tail becomes `user_id`.
ExtractPath(r) ==
    /\ req[r].state = "Received"
    /\ req' = [req EXCEPT ![r] = [@ EXCEPT !.state = "Parsed", !.user_id = req[r].path]]
    /\ UNCHANGED <<tempdir, dispatchLog>>

\* The MultipartForm extractor starts reading the body.
BeginUpload(r) ==
    /\ req[r].state = "Parsed"
    /\ req' = [req EXCEPT ![r] = [@ EXCEPT !.state = "Uploading"]]
    /\ UNCHANGED <<tempdir, dispatchLog>>

\* The next part's headers arrive.  A part of an unknown name, or of a field
\* already received, is skipped; otherwise a temporary file is created.
OpenField(r) ==
    LET q == req[r] IN
    /\ q.state = "Uploading" /\ q.cur = "none" /\ q.idx <= Len(q.body)
    /\ LET p == q.body[q.idx] IN
         IF p.name \in FieldNames /\ q.form[p.name] = NoFile
         THEN LET f == FreshName(tempdir) IN
              /\ req' = [req EXCEPT ![r] = [@ EXCEPT !.cur = p.name, !.off = 0,
                                 !.form = [@ EXCEPT ![p.name] = [file |-> f, size |-> 0]]]]
              /\ tempdir' = tempdir \cup {f}
         ELSE /\ req' = [req EXCEPT ![r] = [@ EXCEPT !.idx = @ + 1, !.off = 0]]
              /\ UNCHANGED tempdir
    /\ UNCHANGED dispatchLog

\* One chunk of the current part: checked against the field's limit, then
\* written to its file.
ReadChunk(r) ==
    LET q == req[r] IN
    /\ q.state = "Uploading" /\ q.cur # "none"
    /\ q.off < q.body[q.idx].size
    /\ LET n == IF q.body[q.idx].size - q.off < Chunk
                THEN q.body[q.idx].size - q.off ELSE Chunk IN
         IF WithinLimit(q.cur, q.form[q.cur].size, n)
         THEN /\ req' = [req EXCEPT ![r] = [@ EXCEPT !.off = @ + n,
                                 !.form = [@ EXCEPT ![q.cur] = [@ EXCEPT !.size = @ + n]]]]
              /\ UNCHANGED tempdir
         ELSE Fail(r, "FieldTooLarge")
    /\ UNCHANGED dispatchLog

\* The current part has ended: its file joins the form.
CloseField(r) ==
    LET q == req[r] IN
    /\ q.state = "Uploading" /\ q.cur # "none"
    /\ q.off = q.body[q.idx].size
    /\ req' = [req EXCEPT ![r] = [@ EXCEPT !.cur = "none", !.idx = @ + 1, !.off = 0]]
    /\ UNCHANGED <<tempdir, dispatchLog>>

\* The body has ended: the form is built if no required field is missing.
FinishForm(r) ==
    LET q == req[r] IN
    /\ q.state = "Uploading" /\ q.cur = "none" /\ q.idx > Len(q.body)
    /\ IF MissingFields(q.form) = {}
       THEN /\ req' = [req EXCEPT ![r] = [@ EXCEPT !.state = "Staged"]]
            /\ UNCHANGED tempdir
       ELSE Fail(r, "MissingField")
    /\ UNCHANGED dispatchLog

\* Faulty variant: a disconnect is handled whatever the request's state.
DisconnectAnytime(r) ==
    /\ req[r].state \in {"Uploading", "Staged", "UploadFailed", "Acknowledged"}
    /\ Fail(r, "Incomplete")
    /\ UNCHANGED dispatchLog

\* The client closes the connection before the body is complete.
Disconnect(r) ==
    /\ req[r].state = "Uploading"
    /\ req[r].idx <= Len(req[r].body)
    /\ Fail(r, "Incomplete")
    /\ UNCHANGED dispatchLog

\* Variant: the handler validates the identifier.
GenerateValidating(r) ==
    /\ req[r].state = "Staged"
    /\ req' = [req EXCEPT ![r] =
                  IF WellFormed(req[r].path)
                  THEN [@ EXCEPT !.state = "Acknowledged", !.resp = 200, !.form = EmptyForm]
                  ELSE [@ EXCEPT !.state = "ParseFailed", !.resp = 400,
                                 !.err = "MalformedIdentifier", !.form = EmptyForm]]
    /\ tempdir' = Release(tempdir, req[r])
    /\ UNCHANGED dispatchLog

\* The body of `generate`: Ok(HttpResponse::Ok()); `form` is dropped on return.
Generate(r) ==
    /\ req[r].state = "Staged"
    /\ req' = [req EXCEPT ![r] = [@ EXCEPT !.state = "Acknowledged", !.resp = 200,
                                           !.form = EmptyForm]]
    /\ tempdir' = Release(tempdir, req[r])
    /\ UNCHANGED dispatchLog

Step(r) ==
    \/ ExtractPath(r)
    \/ BeginUpload(r)
    \/ OpenField(r)
    \/ ReadChunk(r)
    \/ CloseField(r)
    \/ FinishForm(r)
    \/ Disconnect(r)
    \/ Generate(r)

Next == \E r \in Reqs : Step(r)

\* ======================================================== properties
Terminal(q) == q.state \in {"ParseFailed", "UploadFailed", "DispatchFailed", "Acknowledged"}

\* The dispatch calls made for connection r.
JobsOf(r) == {i \in 1..Len(dispatchLog) : dispatchLog[i].conn = r}

\* The first part of the body that carries the field name n, if any.
HasPart(b, n) == \E i \in 1..Len(b) : b[i].name = n
FirstPart(b, n) == b[CHOOSE i \in 1..Len(b) : b[i].name = n /\ \A j \in 1..(i - 1) : b[j].name # n]
BothPresent(b) == \A n \in FieldNames : HasPart(b, n)
UpperFits(b) == HasPart(b, "upper_image") => FirstPart(b, "upper_image").size <= FieldLimit

\* Non-empty delimiter-free pieces of a path.
Pieces(s) ==
    {SubSeq(s, i, j) : i \in 1..Len(s), j \in 1..Len(s)} \ {<<>>}
Segments(s) == {t \in Pieces(s) : \A i \in 1..Len(t) : t[i] # Delim}

\* C1: a request whose identifier is malformed is never acknowledged: once it
\* has ended its response is a 4xx, naming MalformedIdentifier when the upload
\* itself was in order, and nothing was dispatched for it.
C1_MalformedRejected ==
    \A r \in Reqs :
        (req[r].state # "Idle" /\ ~WellFormed(req[r].path)) =>
            /\ req[r].state # "Acknowledged"
            /\ req[r].resp # 200
            /\ JobsOf(r) = {}

\* C2: for non-empty delimiter-free u, l, id, once the path Encode(u, l, id)
\* has been extracted, the identifier the handler holds has userId = id (and
\* upperText = u, lowerText = l): the round trip is the identity.
C2_RoundTrip ==
    \A r \in Reqs :
        \A u \in Segments(req[r].path), l \in Segments(req[r].path), id \in Segments(req[r].path) :
            (req[r].state \notin {"Idle", "Received"} /\ req[r].path = Encode(u, l, id)) =>
                req[r].user_id = id

\* C3 as stated: every body lacking upper_image or lower_image, received to
\* its end (here under a well-formed identifier), fails with MissingField and
\* status 400.
C3_MissingPartAlways ==
    \A r \in Reqs :
        (Terminal(req[r]) /\ ~BothPresent(req[r].body) /\ req[r].err # "Incomplete"
           /\ WellFormed(req[r].path)) =>
            req[r].err = "MissingField" /\ req[r].resp = 400

\* C3 amended: a body lacking upper_image or lower_image never reaches the
\* handler, the success response or a dispatch; and when it is received to its
\* end and its upper_image part (if any) is within the limit, the failure is
\* MissingField with status 400.
C3_MissingPart ==
    \A r \in Reqs :
        ~BothPresent(req[r].body) =>
            /\ req[r].state \notin {"Staged", "Acknowledged"}
            /\ req[r].resp # 200
            /\ JobsOf(r) = {}
            /\ (Terminal(req[r]) /\ req[r].err # "Incomplete" /\ UpperFits(req[r].body)) =>
                   req[r].err = "MissingField" /\ req[r].resp = 400

C3_Witness ==
    \E r \in Reqs :
        /\ req[r].state = "UploadFailed" /\ req[r].err = "MissingField"
        /\ HasPart(req[r].body, "upper_image") /\ HasPart(req[r].body, "other")
        /\ ~HasPart(req[r].body, "lower_image")

\* C4: in a request with a well-formed identifier, no part's staged bytes
\* ever exceed the ceiling, and if its upper_image or its lower_image part is
\* over the ceiling and the body is received to its end, it fails with
\* FieldTooLarge and status 413.
C4_CeilingBothParts ==
    \A r \in Reqs : WellFormed(req[r].path) =>
        /\ \A n \in FieldNames : req[r].form[n].size <= FieldLimit
        /\ (Terminal(req[r]) /\ req[r].err # "Incomplete"
              /\ \E n \in FieldNames :
                    HasPart(req[r].body, n) /\ FirstPart(req[r].body, n).size > FieldLimit) =>
               req[r].err = "FieldTooLarge" /\ req[r].resp = 413

\* C5: a job is dispatched, and the success response given, only for a request
\* whose identifier parsed and whose upload was received; a request failing
\* either validation has a failure surfaced.
C5_AllOrNothing ==
    \A r \in Reqs :
        /\ (JobsOf(r) # {} \/ req[r].state = "Acknowledged") =>
               WellFormed(req[r].path) /\ BothPresent(req[r].body)
        /\ (Terminal(req[r]) /\ ~(WellFormed(req[r].path) /\ BothPresent(req[r].body))) =>
               req[r].resp \in 400..599

\* C6: an acknowledged request has had dispatch called exactly once, with the
\* job made of its parsed identifier.
C6_DispatchedOnce ==
    \A r \in Reqs :
        req[r].state = "Acknowledged" =>
            /\ Cardinality(JobsOf(r)) = 1
            /\ \A i \in JobsOf(r) :
                   Encode(dispatchLog[i].identifier.upperText,
                          dispatchLog[i].identifier.lowerText,
                          dispatchLog[i].identifier.userId) = req[r].path

\* C7: every temporary file that exists belongs to a request still in
\* flight: a request in a terminal state (disconnected ones included) owns
\* none, and a disconnected request has no job.
C7_TempReleased ==
    /\ tempdir = UNION {FilesOf(req[r]) : r \in Reqs}
    /\ \A r \in Reqs :
          /\ Terminal(req[r]) => FilesOf(req[r]) = {}
          /\ req[r].err = "Incomplete" => JobsOf(r) = {} /\ req[r].state = "UploadFailed"
    /\ (\A r \in Reqs : Terminal(req[r])) => tempdir = {}

C7_Witness ==
    /\ \A r \in Reqs : Terminal(req[r])
    /\ \E r \in Reqs : req[r].err = "FieldTooLarge"
    /\ \E r \in Reqs : req[r].state = "Acknowledged"
    /\ tempdir = {}

\* The position of each state in the request state machine
\* Received, Parsing, (ParseFailed | Parsed), Uploading, (UploadFailed | Staged),
\* Dispatching, (DispatchFailed | Acknowledged).
StageOf(s) ==
    CASE s = "Idle" -> 0
      [] s = "Received" -> 1
      [] s = "Parsing" -> 2
      [] s \in {"ParseFailed", "Parsed"} -> 3
      [] s = "Uploading" -> 4
      [] s \in {"UploadFailed", "Staged"} -> 5
      [] s = "Dispatching" -> 6
      [] s \in {"DispatchFailed", "Acknowledged"} -> 7

C8_StepOK(r) ==
    /\ req'[r].state # req[r].state =>
           ~Terminal(req[r]) /\ StageOf(req'[r].state) > StageOf(req[r].state)
    /\ Terminal(req[r]) => req'[r] = req[r]
    /\ req[r].state # "Received" => req'[r].user_id = req[r].user_id
    /\ (req'[r].state = "Uploading" /\ req[r].state = "Uploading") =>
           \/ req'[r].idx > req[r].idx
           \/ req'[r].idx = req[r].idx /\ req'[r].off >= req[r].off

C8_Responses ==
    \A r \in Reqs :
        /\ req[r].state = "Acknowledged" => req[r].resp = 200 /\ req[r].err = "none"
        /\ (Terminal(req[r]) /\ req[r].state # "Acknowledged") =>
               req[r].resp \in 400..599 /\ req[r].err # "none"
        /\ ~Terminal(req[r]) => req[r].resp = 0

RECURSIVE AloneFrom(_, _, _)
AloneFrom(b, i, got) ==
    IF i > Len(b)
    THEN IF got = FieldNames THEN "none" ELSE "MissingField"
    ELSE IF b[i].name \in FieldNames \ got
         THEN IF b[i].name = "upper_image" /\ b[i].size > FieldLimit
              THEN "FieldTooLarge"
              ELSE AloneFrom(b, i + 1, got \cup {b[i].name})
         ELSE AloneFrom(b, i + 1, got)
Alone(b) == AloneFrom(b, 1, {})

C10_AlwaysOk ==
    \A r \in Reqs :
        /\ (Terminal(req[r]) /\ req[r].err # "Incomplete"
              /\ BothPresent(req[r].body) /\ UpperFits(req[r].body)) =>
               req[r].state = "Acknowledged" /\ req[r].resp = 200
        /\ req[r].state = "Staged" =>
               req[r].user_id = req[r].path /\ MissingFields(req[r].form) = {}
        /\ req[r].state \notin {"ParseFailed", "DispatchFailed"}

C10_Witness ==
    \E r \in Reqs :
        /\ req[r].state = "Acknowledged" /\ req[r].resp = 200
        /\ ~WellFormed(req[r].path)
        /\ Len(Split(req[r].path)) = 1

Spec == Init /\ [][Next]_vars
SpecOne == InitOne /\ [][Next]_vars
\* Every connection with a step to take eventually takes one: the runtime polls
\* each handler future, and the client either sends the rest of the body or
\* closes the connection.
FairOne == InitOne /\ [][Next]_vars /\ \A r \in Reqs : WF_vars(Step(r))
====
